---- MODULE Spec2Model ----
(***************************************************************************)
(* The Timestamp proof engine of opentimestamps/timestamp.py:              *)
(*   - add_algorithms / verify_data : multi-algorithm streaming digesting  *)
(*   - verify_consistency           : every signature anchored in the dag  *)
(*   - to_primitives/from_primitives: digest-stack (de)serialization       *)
(* Four specifications share the variables: Spec (digesting), SpecVerify   *)
(* (consistency), SpecProof (serialization and the round trip) and         *)
(* SpecParse (deserialization of arbitrary serialized proofs).             *)
(***************************************************************************)
EXTENDS Integers, Sequences, FiniteSets, TLC

VARIABLES
    data_fd,      \* self.data_fd: [present, content, pos]; present = FALSE is None
    digests,      \* self.digests: algorithm name -> digest
    dag,          \* self.dag: the set of operations
    signatures,   \* self.signatures: the set of signatures
    pc,           \* position inside add_algorithms: "idle", "read", "finalise"
    hashers,      \* add_algorithms' local list of incremental hashers
    hi,           \* index of the hasher the finalising loop is at
    err,          \* what the last call raised ("none" when it returned)
    cur,          \* the running or last digesting call: its arguments and entry state
    prev,         \* the digesting call before it, while the data is the same
    chunks,       \* the chunks the current digesting call has read, in order
    twin,         \* iteration order of the signature set of a second, equal Timestamp
    opts,         \* the options of the last to_primitives call
    prims,        \* what to_primitives returned
    twin_prims,   \* what to_primitives returned for the second Timestamp
    digest_stack, \* to_primitives' digest -> position dict when it returned
    rebuilt,      \* what from_primitives returned or raised
    vc            \* what verify_consistency raised ("none" when it returned)

vars == <<data_fd, digests, dag, signatures, pc, hashers, hi, err, cur, prev,
          chunks, twin, opts, prims, twin_prims, digest_stack, rebuilt, vc>>

proofVars == <<dag, signatures, twin, opts, prims, twin_prims, digest_stack, rebuilt, vc>>

----------------------------------------------------------------------------
(* Bounds *)

\* Longest content of the data source.
MaxLen == 2
\* Bytes one read returns at most (io.DEFAULT_BUFFER_SIZE, scaled down).
BufferSize == 1
\* Byte values of the data.
Bytes == {0, 1}

----------------------------------------------------------------------------
(* Small helpers *)

RECURSIVE Flatten(_)
Flatten(ss) == IF ss = <<>> THEN <<>> ELSE Head(ss) \o Flatten(Tail(ss))

Range(s) == {s[i] : i \in DOMAIN s}

Min(a, b) == IF a < b THEN a ELSE b

\* All sequences without repetition over the set S.
Perms(S) == {p \in [1..Cardinality(S) -> S] : Range(p) = S}

EmptyMap == [a \in {} |-> 0]

MapPut(f, k, v) == [a \in DOMAIN f \cup {k} |-> IF a = k THEN v ELSE f[a]]

Values(f) == {f[a] : a \in DOMAIN f}

----------------------------------------------------------------------------
(* opentimestamps.crypto: the hash provider *)

\* hash_functions_by_name: the algorithms the provider knows.
hash_functions_by_name == {"sha1", "sha256"}

\* Names a caller may pass; "md0" is not in hash_functions_by_name.
AlgorithmNames == hash_functions_by_name \cup {"md0"}

AlgoSalt(name) == IF name = "sha1" THEN 64 ELSE 128

\* The bytes with a leading 1 read as a binary number: injective.
RECURSIVE Encode(_, _)
Encode(acc, bytes) ==
    IF bytes = <<>> THEN acc ELSE Encode(2 * acc + Head(bytes), Tail(bytes))

\* hasher.digest(): a deterministic function of the algorithm and of all the
\* bytes fed, which differs when the algorithm or the bytes differ.
HashDigest(name, fed) == AlgoSalt(name) + Encode(1, Flatten(fed))

\* hasher.update(next_bytes)
HasherUpdate(h, next_bytes) == [h EXCEPT !.fed = Append(@, next_bytes)]

----------------------------------------------------------------------------
(* The data source *)

Contents == UNION {[1..n -> Bytes] : n \in 0..MaxLen}

NoFd == [present |-> FALSE, content |-> <<>>, pos |-> 0]

\* data_fd.read(n): at most n bytes from the current position.
ReadBytes(fd, n) == SubSeq(fd.content, fd.pos + 1, Min(fd.pos + n, Len(fd.content)))

\* Values of the variables of (de)serialization and verification before any call.
NoOpts == [compress |-> FALSE, include_op_digests |-> FALSE]

NoPrims == [valid |-> FALSE]

NoTimestamp == [status |-> "none"]

NoVerdict == [status |-> "none"]

NoCall == [valid |-> FALSE, algorithms |-> {}, startPos |-> 0]

IdleCur == [op |-> "none", algorithms |-> {}, pre |-> EmptyMap, startPos |-> 0]

----------------------------------------------------------------------------
(* Timestamp.add_algorithms and Timestamp.verify_data *)

\* Lines 43-45: one hasher per algorithm of set(self.digests.keys()).union(
\* algorithms), in the iteration order of that set, which Python does not fix.
\* An unknown name raises KeyError at the lookup, before anything is read.
add_algorithms_hashers(op, algorithms) ==
    LET names == DOMAIN digests \cup algorithms
        entry == [op |-> op, algorithms |-> algorithms, pre |-> digests,
                  startPos |-> data_fd.pos]
        before == IF /\ cur.op # "none" /\ err = "none"
                  THEN [valid |-> TRUE, algorithms |-> cur.algorithms,
                        startPos |-> cur.startPos]
                  ELSE NoCall
    IN  /\ pc = "idle"
        /\ cur' = entry
        /\ prev' = before
        /\ chunks' = <<>>
        /\ hi' = 0
        /\ IF names \subseteq hash_functions_by_name
           THEN /\ \E order \in Perms(names) :
                     hashers' = [i \in DOMAIN order |-> [name |-> order[i], fed |-> <<>>]]
                /\ pc' = "read"
                /\ err' = "running"
           ELSE /\ hashers' = <<>>
                /\ pc' = "idle"
                /\ err' = "KeyError"
        /\ UNCHANGED <<data_fd, digests>>
        /\ UNCHANGED proofVars

\* A faulty variant of UpdateAll: only the first hasher is given the chunk.
UpdateFirst(hs, next_bytes) ==
    [i \in DOMAIN hs |-> IF i = 1 THEN HasherUpdate(hs[i], next_bytes) ELSE hs[i]]

\* Lines 52-53: every hasher is given the chunk.
UpdateAll(hs, next_bytes) == [i \in DOMAIN hs |-> HasherUpdate(hs[i], next_bytes)]

\* A faulty variant of add_algorithms_read: a missing data source is read as
\* an empty stream.
add_algorithms_read_lenient ==
    /\ pc = "read"
    /\ LET next_bytes == IF data_fd.present THEN ReadBytes(data_fd, BufferSize) ELSE <<>>
       IN  /\ data_fd' = [data_fd EXCEPT !.pos = @ + Len(next_bytes)]
           /\ IF Len(next_bytes) = 0
              THEN /\ pc' = "finalise"
                   /\ hi' = 1
                   /\ UNCHANGED <<hashers, chunks>>
              ELSE /\ hashers' = UpdateAll(hashers, next_bytes)
                   /\ chunks' = Append(chunks, next_bytes)
                   /\ UNCHANGED <<pc, hi>>
           /\ UNCHANGED err
    /\ UNCHANGED <<digests, cur, prev>>
    /\ UNCHANGED proofVars

\* Lines 47-53, one turn of the loop: read a chunk; an empty chunk ends the
\* loop, any other is fed to every hasher. With data_fd None the read raises
\* AttributeError.
add_algorithms_read ==
    /\ pc = "read"
    /\ IF ~data_fd.present
       THEN /\ pc' = "idle"
            /\ err' = "AttributeError"
            /\ hashers' = <<>>
            /\ UNCHANGED <<data_fd, chunks, hi>>
       ELSE LET next_bytes == ReadBytes(data_fd, BufferSize)
            IN  /\ data_fd' = [data_fd EXCEPT !.pos = @ + Len(next_bytes)]
                /\ IF Len(next_bytes) = 0
                   THEN /\ pc' = "finalise"
                        /\ hi' = 1
                        /\ UNCHANGED <<hashers, chunks>>
                   ELSE /\ hashers' = UpdateAll(hashers, next_bytes)
                        /\ chunks' = Append(chunks, next_bytes)
                        /\ UNCHANGED <<pc, hi>>
                /\ UNCHANGED err
    /\ UNCHANGED <<digests, cur, prev>>
    /\ UNCHANGED proofVars

\* A faulty variant of FinaliseOne: the saved digest is overwritten.
FinaliseOneOverwrite(ds, hasher) ==
    [raised |-> FALSE, digests |-> MapPut(ds, hasher.name, HashDigest(hasher.name, hasher.fed))]

\* A faulty variant of FinaliseOne: the comparison is inverted.
FinaliseOneInverted(ds, hasher) ==
    LET digest == HashDigest(hasher.name, hasher.fed)
    IN  IF hasher.name \notin DOMAIN ds
        THEN [raised |-> FALSE, digests |-> MapPut(ds, hasher.name, digest)]
        ELSE [raised |-> ds[hasher.name] = digest, digests |-> ds]

\* Lines 56-64, for one hasher: a new algorithm's digest is recorded, a
\* recorded one is compared and a difference raises.
FinaliseOne(ds, hasher) ==
    LET digest == HashDigest(hasher.name, hasher.fed)
    IN  IF hasher.name \notin DOMAIN ds
        THEN [raised |-> FALSE, digests |-> MapPut(ds, hasher.name, digest)]
        ELSE [raised |-> ds[hasher.name] # digest, digests |-> ds]

\* Lines 55-64, one turn of the loop over the hashers; a difference raises
\* TimestampVerificationError out of add_algorithms.
add_algorithms_finalise ==
    /\ pc = "finalise"
    /\ IF hi > Len(hashers)
       THEN /\ pc' = "idle"
            /\ err' = "none"
            /\ hashers' = <<>>
            /\ UNCHANGED <<digests, hi>>
       ELSE LET r == FinaliseOne(digests, hashers[hi])
            IN  IF r.raised
                THEN /\ pc' = "idle"
                     /\ err' = "TimestampVerificationError"
                     /\ hashers' = <<>>
                     /\ UNCHANGED <<digests, hi>>
                ELSE /\ digests' = r.digests
                     /\ hi' = hi + 1
                     /\ UNCHANGED <<pc, err, hashers>>
    /\ UNCHANGED <<data_fd, cur, prev, chunks>>
    /\ UNCHANGED proofVars

add_algorithms == \E algorithms \in SUBSET AlgorithmNames :
                      add_algorithms_hashers("add_algorithms", algorithms)

\* Line 71: self.add_algorithms()
verify_data == add_algorithms_hashers("verify_data", {})

----------------------------------------------------------------------------
(* The caller's handling of the data source between calls *)

\* data_fd.seek(0): the caller rewinds the source.
Rewind ==
    /\ pc = "idle"
    /\ data_fd.present
    /\ data_fd.pos # 0
    /\ data_fd' = [data_fd EXCEPT !.pos = 0]
    /\ UNCHANGED <<digests, pc, hashers, hi, err, cur, prev, chunks>>
    /\ UNCHANGED proofVars

\* The data behind the source is replaced by other data, read from its start.
ReplaceData ==
    /\ pc = "idle"
    /\ data_fd.present
    /\ \E c \in Contents \ {data_fd.content} :
           data_fd' = [present |-> TRUE, content |-> c, pos |-> 0]
    /\ cur' = IdleCur
    /\ prev' = NoCall
    /\ err' = "none"
    /\ UNCHANGED <<digests, pc, hashers, hi, chunks>>
    /\ UNCHANGED proofVars

----------------------------------------------------------------------------
(* Specification of digesting *)

\* The digests of one document under some of the algorithms.
SavedDigests ==
    {[a \in A |-> HashDigest(a, <<c>>)] : A \in SUBSET hash_functions_by_name, c \in Contents}

\* Timestamp(data_fd=f) before any digesting, or Timestamp(digests=d) holding
\* the digests of a document without its data, as from_primitives builds it.
Init ==
    /\ \/ /\ data_fd \in {[present |-> TRUE, content |-> c, pos |-> 0] : c \in Contents}
          /\ digests = EmptyMap
       \/ /\ data_fd = NoFd
          /\ digests \in SavedDigests
    /\ dag = {}
    /\ signatures = {}
    /\ pc = "idle"
    /\ hashers = <<>>
    /\ hi = 0
    /\ err = "none"
    /\ cur = IdleCur
    /\ prev = NoCall
    /\ chunks = <<>>
    /\ twin = <<>>
    /\ opts = NoOpts
    /\ prims = NoPrims
    /\ twin_prims = NoPrims
    /\ digest_stack = EmptyMap
    /\ rebuilt = NoTimestamp
    /\ vc = NoVerdict

Next ==
    \/ add_algorithms
    \/ verify_data
    \/ add_algorithms_read
    \/ add_algorithms_finalise
    \/ Rewind
    \/ ReplaceData

Spec == Init /\ [][Next]_vars

----------------------------------------------------------------------------
(* Digests, operations and signatures of a proof *)

\* Most operations of a dag.
MaxOps == 2
\* Most signatures of a Timestamp.
MaxSigs == 2
\* Digest values the source digests are drawn from.
SrcDigests == {1, 2}
\* A digest that no operation yields and no algorithm stores.
AbsentDigest == 250
Notaries == {"notary"}

\* opentimestamps._internal.hexlify: the two hexadecimal digits of a one-byte digest.
hexlify(digest) == <<digest \div 16, digest % 16>>

\* opentimestamps._internal.unhexlify
unhexlify(hex) == 16 * hex[1] + hex[2]

\* The digest an operation yields: a fixed function of its ordered inputs.
RECURSIVE OpHashFrom(_, _)
OpHashFrom(acc, inputs) ==
    IF inputs = <<>> THEN acc
    ELSE OpHashFrom((31 * acc + Head(inputs)) % 199, Tail(inputs))

OpHash(inputs) == OpHashFrom(7, inputs)

\* Op(inputs=...): an operation and the digest it yields.
Op(inputs) == [inputs |-> inputs, digest |-> OpHash(inputs)]

\* sorted(self.digests.values()): the values, repeated ones kept, ascending.
RECURSIVE SortedValuesOf(_, _)
SortedValuesOf(f, keys) ==
    IF keys = {} THEN <<>>
    ELSE LET k == CHOOSE a \in keys : \A b \in keys : f[a] <= f[b]
         IN  <<f[k]>> \o SortedValuesOf(f, keys \ {k})

SortedValues(f) == SortedValuesOf(f, DOMAIN f)

\* sorted(self.dag): the operations in their own order, that of their digests.
RECURSIVE op_sorter(_)
op_sorter(ops) ==
    IF ops = {} THEN <<>>
    ELSE LET o == CHOOSE x \in ops : \A y \in ops : x.digest <= y.digest
         IN  <<o>> \o op_sorter(ops \ {o})

\* A reference to a digest in a serialized proof: a stack index or the hex bytes.
IndexRef(i) == [kind |-> "index", index |-> i, hex |-> <<>>]

HexRef(digest) == [kind |-> "hex", index |-> 0, hex |-> hexlify(digest)]

\* A digest on the stack is written as its position, any other as its bytes.
DigestRef(digest, stack) ==
    IF digest \in DOMAIN stack THEN IndexRef(stack[digest]) ELSE HexRef(digest)

\* Op.to_primitives(digest_stack=..., include_digest=...)
Op_to_primitives(op, stack, include_digest) ==
    [inputs |-> [i \in DOMAIN op.inputs |-> DigestRef(op.inputs[i], stack)],
     digest |-> IF include_digest THEN hexlify(op.digest) ELSE <<>>]

\* Signature.to_primitives(digest_stack=...)
Signature_to_primitives(sig, stack) ==
    [digest |-> DigestRef(sig.digest, stack), notary |-> sig.notary]

\* A reference resolved against the stack from_primitives rebuilds; an index
\* that is not (yet) on the stack is a malformed proof.
RefOk(ref, stack) == ref.kind = "hex" \/ ref.index < Len(stack)

Resolve(ref, stack) == IF ref.kind = "hex" THEN unhexlify(ref.hex) ELSE stack[ref.index + 1]

\* Op.from_primitives(op, digest_stack=...): the inputs resolved, the digest
\* read or computed again from the inputs, and pushed onto the stack.
Op_from_primitives(prim_op, stack) ==
    IF \A i \in DOMAIN prim_op.inputs : RefOk(prim_op.inputs[i], stack)
    THEN LET inputs == [i \in DOMAIN prim_op.inputs |-> Resolve(prim_op.inputs[i], stack)]
             digest == IF prim_op.digest = <<>> THEN OpHash(inputs)
                       ELSE unhexlify(prim_op.digest)
         IN  [ok |-> TRUE, op |-> [inputs |-> inputs, digest |-> digest],
              stack |-> Append(stack, digest)]
    ELSE [ok |-> FALSE, op |-> Op(<<>>), stack |-> stack]

\* Signature.from_primitives(sig, digest_stack=...)
Signature_from_primitives(prim_sig, stack) ==
    IF RefOk(prim_sig.digest, stack)
    THEN [ok |-> TRUE, sig |-> [digest |-> Resolve(prim_sig.digest, stack),
                                notary |-> prim_sig.notary]]
    ELSE [ok |-> FALSE, sig |-> [digest |-> 0, notary |-> prim_sig.notary]]

\* Dag.children(parents): the digests that operations yield from the parents,
\* directly or through further operations.
RECURSIVE ChildrenFrom(_, _)
ChildrenFrom(ops, found) ==
    LET more == {op.digest : op \in {o \in ops :
                     \E i \in DOMAIN o.inputs : o.inputs[i] \in found}}
    IN  IF more \subseteq found THEN found ELSE ChildrenFrom(ops, found \cup more)

children(ops, parents) ==
    LET first == {op.digest : op \in {o \in ops :
                      \E i \in DOMAIN o.inputs : o.inputs[i] \in parents}}
    IN  ChildrenFrom(ops, first)

----------------------------------------------------------------------------
(* Timestamp.verify_consistency *)

\* A faulty variant of digest_children: line 78 without line 79.
digest_children_only == children(dag, Values(digests))

\* Lines 78-79: the children of the source digests and the source digests.
digest_children == children(dag, Values(digests)) \cup Values(digests)

\* Lines 81-83: the first signature, in the iteration order of the set (which
\* Python does not fix), whose digest is not among them raises
\* TimestampVerificationError.
RECURSIVE FirstUnanchored(_, _)
FirstUnanchored(sigs, anchored) ==
    IF sigs = <<>> THEN [status |-> "ok"]
    ELSE IF Head(sigs).digest \notin anchored
         THEN [status |-> "TimestampVerificationError", sig |-> Head(sigs)]
         ELSE FirstUnanchored(Tail(sigs), anchored)

\* The calls below do not change the Timestamp: each is made on the Timestamp
\* as constructed, and its result is kept.
Fresh == prims = NoPrims /\ rebuilt = NoTimestamp /\ vc = NoVerdict

verify_consistency ==
    /\ Fresh
    /\ \E order \in Perms(signatures) : vc' = FirstUnanchored(order, digest_children)
    /\ UNCHANGED <<data_fd, digests, dag, signatures, pc, hashers, hi, err, cur, prev,
                   chunks, twin, opts, prims, twin_prims, digest_stack, rebuilt>>

----------------------------------------------------------------------------
(* Timestamp.to_primitives *)

\* digest_stack[x] = len(digest_stack.keys())
StackSet(stack, digest) == MapPut(stack, digest, Cardinality(DOMAIN stack))

\* Lines 92-94: the sorted source digests go on the stack when compressing.
RECURSIVE StackSources(_, _, _)
StackSources(stack, values, compress) ==
    IF values = <<>> THEN stack
    ELSE StackSources(IF compress THEN StackSet(stack, Head(values)) ELSE stack,
                      Tail(values), compress)

\* Lines 96-102: each operation is serialized against the stack and then, when
\* compressing, put on the stack itself.
RECURSIVE SerializeOps(_, _, _, _, _)
SerializeOps(stack, prim_ops, ops, compress, include_op_digests) ==
    IF ops = <<>> THEN [stack |-> stack, prim_ops |-> prim_ops]
    ELSE SerializeOps(IF compress THEN StackSet(stack, Head(ops).digest) ELSE stack,
                      Append(prim_ops, Op_to_primitives(Head(ops), stack, include_op_digests)),
                      Tail(ops), compress, include_op_digests)

\* Lines 89-107 for the signatures iterated in the order sigs.
to_primitives_of(sigs, compress, include_op_digests) ==
    LET sources == StackSources(EmptyMap, SortedValues(digests), compress)
        done == SerializeOps(sources, <<>>, op_sorter(dag), compress, include_op_digests)
    IN  [stack |-> done.stack,
         primitives |->
             [valid |-> TRUE,
              ops |-> done.prim_ops,
              signatures |-> [i \in DOMAIN sigs |-> Signature_to_primitives(sigs[i], done.stack)],
              digests |-> [a \in DOMAIN digests |-> hexlify(digests[a])]]]

\* to_primitives(include_op_digests, compress) of the Timestamp and of a
\* second Timestamp holding the same digests, operations and signatures, built
\* in another insertion order: line 104 iterates each signature set in the
\* order of that set, which Python does not fix.
to_primitives ==
    \E compress \in BOOLEAN, include_op_digests \in BOOLEAN :
    \E order \in Perms(signatures), twin_order \in Perms(signatures) :
        LET r == to_primitives_of(order, compress, include_op_digests)
        IN  /\ Fresh
            /\ opts' = [compress |-> compress, include_op_digests |-> include_op_digests]
            /\ prims' = r.primitives
            /\ digest_stack' = r.stack
            /\ twin' = twin_order
            /\ twin_prims' = to_primitives_of(twin_order, compress, include_op_digests).primitives
            /\ UNCHANGED <<data_fd, digests, dag, signatures, pc, hashers, hi, err, cur,
                           prev, chunks, rebuilt, vc>>

----------------------------------------------------------------------------
(* Timestamp.from_primitives *)

\* A faulty variant of RebuildOps: an operation that cannot be rebuilt is left out.
RECURSIVE RebuildOpsSkipping(_, _, _)
RebuildOpsSkipping(stack, ops, prim_ops) ==
    IF prim_ops = <<>> THEN [ok |-> TRUE, stack |-> stack, ops |-> ops]
    ELSE LET r == Op_from_primitives(Head(prim_ops), stack)
         IN  IF r.ok THEN RebuildOpsSkipping(r.stack, Append(ops, r.op), Tail(prim_ops))
             ELSE RebuildOpsSkipping(stack, ops, Tail(prim_ops))

\* Line 116: the operations are rebuilt in the order written, each against the
\* stack the ones before it have left.
RECURSIVE RebuildOps(_, _, _)
RebuildOps(stack, ops, prim_ops) ==
    IF prim_ops = <<>> THEN [ok |-> TRUE, stack |-> stack, ops |-> ops]
    ELSE LET r == Op_from_primitives(Head(prim_ops), stack)
         IN  IF r.ok THEN RebuildOps(r.stack, Append(ops, r.op), Tail(prim_ops))
             ELSE [ok |-> FALSE, stack |-> stack, ops |-> ops]

\* Lines 111-118: what from_primitives returns, or the error it lets through.
from_primitives_of(primitives) ==
    LET ds == [a \in DOMAIN primitives.digests |-> unhexlify(primitives.digests[a])]
        ops == RebuildOps(SortedValues(ds), <<>>, primitives.ops)
        sigs == [i \in DOMAIN primitives.signatures |->
                     Signature_from_primitives(primitives.signatures[i], ops.stack)]
    IN  IF ops.ok /\ \A i \in DOMAIN sigs : sigs[i].ok
        THEN [status |-> "ok",
              digests |-> ds,
              ops |-> Range(ops.ops),
              signatures |-> {sigs[i].sig : i \in DOMAIN sigs},
              stack |-> ops.stack]
        ELSE [status |-> "MalformedProof"]

\* Timestamp.from_primitives(primitives)
from_primitives ==
    /\ prims.valid
    /\ rebuilt = NoTimestamp
    /\ rebuilt' = from_primitives_of(prims)
    /\ UNCHANGED <<data_fd, digests, dag, signatures, pc, hashers, hi, err, cur, prev,
                   chunks, twin, opts, prims, twin_prims, digest_stack, vc>>

----------------------------------------------------------------------------
(* Specifications of consistency verification and of serialization *)

\* Inputs of operations: the source digest values and what an operation yields
\* from the first of them.
InputPool == SrcDigests \cup {OpHash(<<1>>)}

\* Operations of one input and of two.
OpPool == {Op(inputs) : inputs \in [1..1 -> InputPool] \cup [1..2 -> InputPool]}

\* No operation takes, directly or through others, its own output as input,
\* and no two operations yield the same digest.
ValidDag(ops) ==
    /\ \A o1, o2 \in ops : o1.digest = o2.digest => o1 = o2
    /\ \E order \in Perms(ops) :
           \A i, j \in DOMAIN order :
               j >= i => \A k \in DOMAIN order[i].inputs :
                             order[i].inputs[k] # order[j].digest

Dags == {ops \in SUBSET OpPool : Cardinality(ops) <= MaxOps /\ ValidDag(ops)}

\* Signatures attest a source digest value, a digest of the dag or a digest
\* that is not in the proof.
SigPool(ops) ==
    {[digest |-> d, notary |-> n] :
         d \in SrcDigests \cup {o.digest : o \in ops} \cup {AbsentDigest}, n \in Notaries}

SigSets(ops) == {T \in SUBSET SigPool(ops) : Cardinality(T) <= MaxSigs}

\* Timestamp(digests=..., ops=..., signatures=...)
InitProof ==
    /\ data_fd = NoFd
    /\ digests \in UNION {[A -> SrcDigests] : A \in SUBSET hash_functions_by_name}
    /\ dag \in Dags
    /\ signatures \in SigSets(dag)
    /\ pc = "idle"
    /\ hashers = <<>>
    /\ hi = 0
    /\ err = "none"
    /\ cur = IdleCur
    /\ prev = NoCall
    /\ chunks = <<>>
    /\ twin = <<>>
    /\ opts = NoOpts
    /\ prims = NoPrims
    /\ twin_prims = NoPrims
    /\ digest_stack = EmptyMap
    /\ rebuilt = NoTimestamp
    /\ vc = NoVerdict

NextProof ==
    \/ to_primitives
    \/ from_primitives

SpecProof == InitProof /\ [][NextProof]_vars

NextVerify == verify_consistency

SpecVerify == InitProof /\ [][NextVerify]_vars

----------------------------------------------------------------------------
(* Specification of the deserialization of arbitrary serialized proofs *)

\* Most operations of a serialized proof.
MaxPrimOps == 2
\* Largest stack index written in a serialized proof.
MaxIndex == 3

Refs == {IndexRef(i) : i \in 0..MaxIndex} \cup {HexRef(1)}

\* Serialized operations with one input, or with two of which the first is
\* the bottom of the stack; the digest is left to be computed.
PrimOps ==
    {[inputs |-> inputs, digest |-> <<>>] :
         inputs \in {<<r>> : r \in Refs} \cup {<<IndexRef(0), r>> : r \in Refs}}

\* At most one serialized signature.
PrimSigs ==
    {<<>>} \cup {<<[digest |-> r, notary |-> n]>> : r \in Refs, n \in Notaries}

Primitives ==
    {[valid |-> TRUE, ops |-> ops, signatures |-> sigs,
      digests |-> [a \in DOMAIN ds |-> hexlify(ds[a])]] :
         ops \in UNION {[1..n -> PrimOps] : n \in 0..MaxPrimOps},
         sigs \in PrimSigs,
         ds \in UNION {[A -> SrcDigests] : A \in SUBSET hash_functions_by_name}}

InitParse ==
    /\ data_fd = NoFd
    /\ digests = EmptyMap
    /\ dag = {}
    /\ signatures = {}
    /\ pc = "idle"
    /\ hashers = <<>>
    /\ hi = 0
    /\ err = "none"
    /\ cur = IdleCur
    /\ prev = NoCall
    /\ chunks = <<>>
    /\ twin = <<>>
    /\ opts = NoOpts
    /\ prims \in Primitives
    /\ twin_prims = NoPrims
    /\ digest_stack = EmptyMap
    /\ rebuilt = NoTimestamp
    /\ vc = NoVerdict

NextParse == from_primitives

SpecParse == InitParse /\ [][NextParse]_vars

----------------------------------------------------------------------------
(* Claims about digesting, checked under Spec *)

\* The data the current call has read, as one chunk.
DataRead == <<Flatten(chunks)>>

Returned == pc = "idle" /\ cur.op # "none"

\* C3: a digest stored for an algorithm is never changed or dropped by any
\* step of add_algorithms or verify_data, and a call that reaches the
\* comparison with data whose digest for a stored algorithm differs from the
\* stored one ends with the inconsistent-digest error
\* (TimestampVerificationError).
C3_StoredDigestNeverChanges ==
    [][/\ \A a \in DOMAIN digests : a \in DOMAIN digests' /\ digests'[a] = digests[a]
       /\ (/\ pc = "finalise"
           /\ pc' = "idle"
           /\ \E a \in DOMAIN cur.pre : HashDigest(a, DataRead) # cur.pre[a])
          => err' = "TimestampVerificationError"]_vars

\* A call has ended with the inconsistent-digest error and the digest stored
\* before it is still the stored one.
C3_Witness ==
    /\ Returned
    /\ err = "TimestampVerificationError"
    /\ \E a \in DOMAIN cur.pre :
           /\ HashDigest(a, DataRead) # cur.pre[a]
           /\ digests[a] = cur.pre[a]

\* Two calls in a row with the same algorithms, the data of the source the
\* same, the first having returned without error.
SecondOfTwo == Returned /\ prev.valid /\ cur.algorithms = prev.algorithms

\* C4 as stated: the second of two calls in a row with the same algorithms and
\* the same data raises nothing and leaves the stored digests as the first
\* left them.
C4_TwiceInARow == SecondOfTwo => (err = "none" /\ digests = cur.pre)

\* C4 as amended: the same, when the second call reads from the position the
\* first call read from.
C4_TwiceFromSamePosition ==
    (SecondOfTwo /\ cur.startPos = prev.startPos) => (err = "none" /\ digests = cur.pre)

\* The second of two such calls has returned, after a rewind, having read and
\* compared the data again.
C4_Witness ==
    /\ SecondOfTwo
    /\ cur.startPos = prev.startPos
    /\ cur.algorithms # {}
    /\ Len(chunks) >= 2
    /\ err = "none"

\* C6: while a digesting call reads and when it has read, there is one hasher
\* per algorithm of (stored at entry) \cup (requested), every hasher has been
\* given exactly the chunks read so far in the order read, these chunks are
\* the data from the position at entry to the current position, and reading
\* ends at the end of the data.
C6_SinglePassInOrder ==
    pc \in {"read", "finalise"} =>
        /\ Len(hashers) = Cardinality(DOMAIN cur.pre \cup cur.algorithms)
        /\ {hashers[i].name : i \in DOMAIN hashers} = DOMAIN cur.pre \cup cur.algorithms
        /\ \A i \in DOMAIN hashers : hashers[i].fed = chunks
        /\ Flatten(chunks) = SubSeq(data_fd.content, cur.startPos + 1, data_fd.pos)
        /\ pc = "finalise" => data_fd.pos = Len(data_fd.content)

\* Two hashers have each been given two chunks and the data is at its end.
C6_Witness ==
    /\ pc = "finalise"
    /\ Len(hashers) >= 2
    /\ Len(chunks) >= 2

\* A call of add_algorithms with a new algorithm on a Timestamp without data
\* source has returned.
NoSourceCall ==
    /\ Returned
    /\ cur.op = "add_algorithms"
    /\ ~data_fd.present
    /\ cur.algorithms \ DOMAIN cur.pre # {}

\* C8 as stated: such a call fails with the error of a missing data source
\* (here the AttributeError of None.read), which is neither the
\* inconsistent-digest nor the unknown-algorithm error, and leaves the
\* digests as they were.
C8_NoDataSource ==
    NoSourceCall =>
        /\ err = "AttributeError"
        /\ err \notin {"TimestampVerificationError", "KeyError", "none"}
        /\ digests = cur.pre

\* C8 as amended: the same, when every requested algorithm is known to the
\* hash provider.
C8_NoDataSourceKnownAlgorithms ==
    (NoSourceCall /\ cur.algorithms \subseteq hash_functions_by_name) =>
        /\ err = "AttributeError"
        /\ err \notin {"TimestampVerificationError", "KeyError", "none"}
        /\ digests = cur.pre

\* Such a call, on a Timestamp that holds a digest, has failed.
C8_Witness ==
    /\ NoSourceCall
    /\ cur.algorithms \subseteq hash_functions_by_name
    /\ cur.pre # EmptyMap
    /\ err = "AttributeError"

\* C10: when add_algorithms has failed with the inconsistent-digest error the
\* digests are those of before the call.
C10_FailedCallLeavesDigests ==
    (Returned /\ err = "TimestampVerificationError") => digests = cur.pre

----------------------------------------------------------------------------
(* Claims about consistency verification, checked under SpecVerify, and about
   serialization, checked under SpecProof *)

\* A digest is anchored when it is a source digest or some operation of the
\* dag yields it from an input that is anchored.
RECURSIVE Anchored(_)
Anchored(digest) ==
    \/ digest \in Values(digests)
    \/ \E op \in dag :
           /\ op.digest = digest
           /\ \E i \in DOMAIN op.inputs : Anchored(op.inputs[i])

\* C2: verify_consistency returns without error exactly when the digest of
\* every signature is a source digest or is derived from one through
\* operations of the dag; otherwise it raises the unanchored-signature error
\* (TimestampVerificationError) for a signature of the Timestamp whose digest
\* is not anchored.
C2_ConsistencyIsReachability ==
    vc.status # "none" =>
        /\ vc.status = "ok" <=> \A sig \in signatures : Anchored(sig.digest)
        /\ vc.status # "ok" =>
               /\ vc.status = "TimestampVerificationError"
               /\ vc.sig \in signatures
               /\ ~Anchored(vc.sig.digest)

\* A chain D0 -> D1 -> D2 from a source digest D0, a signature on D2, which is
\* no source digest, and verify_consistency has returned without error.
C2_Witness ==
    /\ vc.status = "ok"
    /\ \E op1, op2 \in dag :
           /\ op1.inputs[1] \in Values(digests)
           /\ op2.inputs = <<op1.digest>>
           /\ op2.digest \notin Values(digests)
           /\ \E sig \in signatures : sig.digest = op2.digest

RoundTripDone == rebuilt.status # "none"

\* C1: from_primitives(t.to_primitives(compress=...)) returns a Timestamp with
\* the source digests, the set of operations and the set of signatures of t.
C1_RoundTrip ==
    RoundTripDone =>
        /\ rebuilt.status = "ok"
        /\ rebuilt.digests = digests
        /\ rebuilt.ops = dag
        /\ rebuilt.signatures = signatures

\* The digests in the order to_primitives meets them: the sorted source
\* digests, then the digests of the operations in serialization order.
Appearance ==
    LET ops == op_sorter(dag)
    IN  SortedValues(digests) \o [i \in DOMAIN ops |-> ops[i].digest]

FirstAppearance(digest) ==
    CHOOSE i \in DOMAIN Appearance :
        Appearance[i] = digest /\ \A j \in 1..(i - 1) : Appearance[j] # digest

\* The 0-based count of distinct digests met before the first appearance.
DensePosition(digest) ==
    Cardinality({Appearance[j] : j \in 1..(FirstAppearance(digest) - 1)})

\* C9: after a compressed serialization the recorded positions are those of
\* first appearance, dense from 0, and from_primitives holds each digest at
\* the position recorded for it.
C9_StackPositionsAgree ==
    (RoundTripDone /\ opts.compress) =>
        /\ DOMAIN digest_stack = Range(Appearance)
        /\ \A d \in DOMAIN digest_stack : digest_stack[d] = DensePosition(d)
        /\ rebuilt.status = "ok"
        /\ \A d \in DOMAIN digest_stack :
               /\ digest_stack[d] < Len(rebuilt.stack)
               /\ rebuilt.stack[digest_stack[d] + 1] = d

\* C5: two Timestamps with the same source digests, operations and
\* signatures serialize, under the same options, to the same 'digests',
\* 'ops' and 'signatures'.
C5_Deterministic ==
    prims.valid =>
        /\ twin_prims.digests = prims.digests
        /\ twin_prims.ops = prims.ops
        /\ twin_prims.signatures = prims.signatures

----------------------------------------------------------------------------
(* Claims about deserialization, checked under SpecParse *)

\* Entries on the rebuilt stack when the k-th serialized operation is rebuilt:
\* one per source digest and one per operation before it.
StackSizeAt(k) == Cardinality(DOMAIN prims.digests) + (k - 1)

BadIndex(ref, size) == ref.kind = "index" /\ ref.index >= size

\* Some operation or signature refers to a stack index that is out of range or
\* not yet pushed when it is rebuilt.
HasBadReference ==
    \/ \E k \in DOMAIN prims.ops : \E i \in DOMAIN prims.ops[k].inputs :
           BadIndex(prims.ops[k].inputs[i], StackSizeAt(k))
    \/ \E k \in DOMAIN prims.signatures :
           BadIndex(prims.signatures[k].digest, StackSizeAt(Len(prims.ops) + 1))

\* C7: from_primitives of a serialized proof with a stack index that is out
\* of range or not yet pushed fails with the malformed-proof error and
\* returns no Timestamp.
C7_BadReferenceRejected ==
    (rebuilt.status # "none" /\ HasBadReference) => rebuilt.status = "MalformedProof"

\* A proof whose second operation refers to its own position, which is pushed
\* only after it, every other reference being good, has been rejected.
C7_Witness ==
    /\ rebuilt.status = "MalformedProof"
    /\ Len(prims.ops) = 2
    /\ prims.ops[1].inputs = <<IndexRef(0)>>
    /\ prims.ops[2].inputs = <<IndexRef(StackSizeAt(2))>>
    /\ Cardinality(DOMAIN prims.digests) = 2
    /\ prims.signatures = <<>>

====
